---- MODULE Spec2Model ----
(***************************************************************************)
(* A model of ewc: the Count value and its merge (src/src/counter.rs), the *)
(* directory walk and the parallel per-file count                           *)
(* (count_directory_detailed), and the driver loops of src/src/main.rs.     *)
(*                                                                          *)
(* The specifications share the variables; each leaves the variables of the *)
(* others at their initial value:                                           *)
(*   SpecMerge   Count::add and Sum::sum over operands drawn in Init        *)
(*   SpecContent Count::from_content over a content drawn in Init           *)
(*   SpecDir     one call of count_directory_detailed                       *)
(*   SpecDriver  one run of main over a list of top-level inputs            *)
(*   SpecFlags   runs of main over fewer inputs, under every display flag   *)
(*   SpecFormat  escape_json and format_number over inputs drawn in Init    *)
(***************************************************************************)
EXTENDS Integers, Sequences, FiniteSets, TLC

VARIABLES
    \* SpecContent
    text,              \* the content handed to Count::from_content
    counted,           \* what from_content returned, once it has
    \* SpecFormat
    subject,           \* the string or the number handed to the formatter
    rendered,          \* the String the formatter returned, once it has
    \* SpecMerge
    operands,          \* the Counts handed to Sum::sum
    order,             \* the indices of operands the fold has consumed, in order
    acc,               \* the fold's accumulator
    \* SpecDir: the file system and the configuration
    root,              \* base name of the directory given to the walk
    present,           \* the regular files under the root (relative paths)
    unreadable,        \* the files whose read_to_string fails
    root_openable,     \* whether read_dir on the root succeeds
    config,            \* the FilterConfig
    \* SpecDir: the call
    dpc,               \* "start", "walk", "count", "done"
    stack,             \* WalkDir's open directories: the entries each has yet to yield
    visited,           \* entries that passed filter_entry and were yielded
    file_paths,        \* walk_directory's result so far
    slots,             \* the parallel map's result per index of file_paths
    dresult,           \* what count_directory_detailed returned
    \* SpecDriver
    args,              \* the parsed Args: files and the flags main reads
    pc,                \* "main", "json", "normal", "exited"
    index,             \* how many of args.files the loop has processed
    has_error,
    total_count,
    total_file_count,
    successful_args,
    results,           \* run_json_mode's Vec<JsonFileResult>
    stdout,            \* what println! wrote, one element per call
    stderr,            \* what eprintln! wrote, one element per call
    exit_code          \* the process's exit status, "running" until it ends

textVars == <<text, counted, subject, rendered>>
mergeVars == <<operands, order, acc>>
fsVars == <<root, present, unreadable, root_openable, config>>
dirVars == <<dpc, stack, visited, file_paths, slots, dresult>>
drvVars == <<args, pc, index, has_error, total_count, total_file_count,
             successful_args, results, stdout, stderr, exit_code>>
vars == <<textVars, mergeVars, fsVars, dirVars, drvVars>>

----------------------------------------------------------------------------
(* Bounds *)

\* Count fields of the merge operands range over 0..MaxVal
MaxVal == 1
\* at most this many regular files exist under the walked root
MaxFiles == 3
\* at most this many top-level paths are given on the command line
MaxInputs == 3

----------------------------------------------------------------------------
(* Count: counter.rs 15-60 *)

Max(x, y) == IF x >= y THEN x ELSE y

Count(l, w, b, m) ==
    [lines |-> l, words |-> w, bytes |-> b, max_line_length |-> m]

\* #[derive(Default)]
Count_default == Count(0, 0, 0, 0)

\* a merge that keeps the right operand's max_line_length
add_keeps_right(self, other) ==
    [lines |-> self.lines + other.lines,
     words |-> self.words + other.words,
     bytes |-> self.bytes + other.bytes,
     max_line_length |-> other.max_line_length]

\* impl Add for Count
add(self, other) ==
    [lines |-> self.lines + other.lines,
     words |-> self.words + other.words,
     bytes |-> self.bytes + other.bytes,
     max_line_length |-> Max(self.max_line_length, other.max_line_length)]

\* an add_assign that adds the two max_line_length
add_assign_sums_max(self, other) ==
    [lines |-> self.lines + other.lines,
     words |-> self.words + other.words,
     bytes |-> self.bytes + other.bytes,
     max_line_length |-> self.max_line_length + other.max_line_length]

\* an add_assign that leaves max_line_length as it was
add_assign_keeps_max(self, other) ==
    [lines |-> self.lines + other.lines,
     words |-> self.words + other.words,
     bytes |-> self.bytes + other.bytes,
     max_line_length |-> self.max_line_length]

\* impl AddAssign for Count: the value of self after `self += other`
add_assign(self, other) ==
    [lines |-> self.lines + other.lines,
     words |-> self.words + other.words,
     bytes |-> self.bytes + other.bytes,
     max_line_length |-> Max(self.max_line_length, other.max_line_length)]

\* iter.fold(init, |acc, c| acc + c)
RECURSIVE fold(_, _)
fold(init, s) ==
    IF s = <<>> THEN init ELSE fold(add(init, Head(s)), Tail(s))

\* a sum whose fold starts from a Count of one empty line
sum_from_one_line(s) == fold([lines |-> 1, words |-> 0, bytes |-> 0, max_line_length |-> 0], s)

\* impl Sum for Count
sum(s) == fold(Count_default, s)

----------------------------------------------------------------------------
(* SpecMerge: Sum::sum over the operands, taken in any order *)

CountSet ==
    { Count(l, w, l + w + m, m) : l \in 0..MaxVal, w \in 0..MaxVal, m \in 0..MaxVal }

IdleDir ==
    /\ root = <<"d">>
    /\ present = {}
    /\ unreadable = {}
    /\ root_openable = TRUE
    /\ config = [include_hidden |-> FALSE, exclude_patterns |-> <<>>,
                 include_patterns |-> <<>>]
    /\ dpc = "idle"
    /\ stack = <<>>
    /\ visited = {}
    /\ file_paths = <<>>
    /\ slots = <<>>
    /\ dresult = [ok |-> FALSE, err |-> "none"]

IdleText ==
    /\ text = <<>>
    /\ counted = [state |-> "none"]   \* None

IdleFormat ==
    /\ subject = [kind |-> "none"]
    /\ rendered = [state |-> "none"]   \* None

IdleMerge ==
    /\ operands = <<>>
    /\ order = <<>>
    /\ acc = Count_default

IdleDriver ==
    /\ args = [files |-> <<>>, json |-> FALSE, compact |-> FALSE, verbose |-> FALSE,
               lines |-> FALSE, words |-> FALSE, bytes |-> FALSE,
               max_line_length |-> FALSE, no_color |-> FALSE]
    /\ pc = "idle"
    /\ index = 0
    /\ has_error = FALSE
    /\ total_count = Count_default
    /\ total_file_count = 0
    /\ successful_args = 0
    /\ results = <<>>
    /\ stdout = <<>>
    /\ stderr = <<>>
    /\ exit_code = "running"

MergeInit ==
    /\ operands \in [1..3 -> CountSet]
    /\ order = <<>>
    /\ acc = Count_default
    /\ IdleText
    /\ IdleFormat
    /\ IdleDir
    /\ IdleDriver

Range(s) == { s[i] : i \in DOMAIN s }

\* one iteration of the fold in Sum::sum
SumNext ==
    /\ \E i \in (DOMAIN operands) \ Range(order) :
          /\ acc' = add(acc, operands[i])
          /\ order' = Append(order, i)
    /\ UNCHANGED <<textVars, operands, fsVars, dirVars, drvVars>>

\* `acc += operands[i]`: the same accumulation written with AddAssign
AddAssignNext ==
    /\ \E i \in (DOMAIN operands) \ Range(order) :
          /\ acc' = add_assign(acc, operands[i])
          /\ order' = Append(order, i)
    /\ UNCHANGED <<textVars, operands, fsVars, dirVars, drvVars>>

MergeNext == SumNext \/ AddAssignNext

SpecMerge == MergeInit /\ [][MergeNext]_vars

----------------------------------------------------------------------------
(* Option *)

None == [state |-> "none"]
Some(x) == [state |-> "some", value |-> x]

----------------------------------------------------------------------------
(* Text: characters, names, paths *)

\* the byte a character is encoded as (the first byte, for U+00E9 and U+FFFD);
\* "0xFF" is a byte that is part of no UTF-8 encoding
Ord(ch) ==
    CASE ch = "\t" -> 9
      [] ch = "\n" -> 10
      [] ch = "\r" -> 13
      [] ch = " " -> 32
      [] ch = "*" -> 42
      [] ch = "." -> 46
      [] ch = "/" -> 47
      [] ch = "[" -> 91
      [] ch = "a" -> 97
      [] ch = "b" -> 98
      [] ch = "c" -> 99
      [] ch = "d" -> 100
      [] ch = "g" -> 103
      [] ch = "h" -> 104
      [] ch = "r" -> 114
      [] ch = "s" -> 115
      [] ch = "U+00E9" -> 195
      [] ch = "U+FFFD" -> 239
      [] ch = "0xFF" -> 255

\* the number of bytes of a character's UTF-8 encoding
utf8_len(ch) == IF ch = "U+00E9" THEN 2 ELSE IF ch = "U+FFFD" THEN 3 ELSE 1

\* byte order of two strings (a string is a sequence of characters)
RECURSIVE str_less(_, _)
str_less(s, t) ==
    IF t = <<>> THEN FALSE
    ELSE IF s = <<>> THEN TRUE
    ELSE IF Head(s) # Head(t) THEN Ord(Head(s)) < Ord(Head(t))
    ELSE str_less(Tail(s), Tail(t))

\* Path::cmp: the components compared one by one (a path is a sequence of names)
RECURSIVE path_less(_, _)
path_less(p, q) ==
    IF q = <<>> THEN FALSE
    ELSE IF p = <<>> THEN TRUE
    ELSE IF Head(p) # Head(q) THEN str_less(Head(p), Head(q))
    ELSE path_less(Tail(p), Tail(q))

\* the bytes of a path: the components joined by the separator
RECURSIVE as_os_str(_)
as_os_str(p) ==
    IF p = <<>> THEN <<>>
    ELSE IF Len(p) = 1 THEN Head(p)
    ELSE Head(p) \o <<"/">> \o as_os_str(Tail(p))

\* OsStr::to_str: None unless the bytes are valid UTF-8
to_str(name) ==
    IF \E i \in DOMAIN name : name[i] = "0xFF"
    THEN [state |-> "none"]
    ELSE [state |-> "some", value |-> name]

\* Path::to_string_lossy: a byte that is not valid UTF-8 becomes U+FFFD
to_string_lossy(p) ==
    LET bytes == as_os_str(p) IN
    [i \in DOMAIN bytes |-> IF bytes[i] = "0xFF" THEN "U+FFFD" ELSE bytes[i]]

\* Path::strip_prefix(base).unwrap_or(path)
strip_prefix(p, base) ==
    IF Len(base) <= Len(p) /\ SubSeq(p, 1, Len(base)) = base
    THEN SubSeq(p, Len(base) + 1, Len(p))
    ELSE p

----------------------------------------------------------------------------
(* Count::from_content: counter.rs 24-31 *)

Whitespace == {" ", "\n", "\r", "\t"}

\* index of the first "\n" of s, 0 when there is none
RECURSIVE first_newline(_, _)
first_newline(s, i) ==
    IF i > Len(s) THEN 0
    ELSE IF s[i] = "\n" THEN i
    ELSE first_newline(s, i + 1)

\* a split at every "\n" that keeps the empty segment after a final "\n"
RECURSIVE str_lines_split(_)
str_lines_split(s) ==
    LET k == first_newline(s, 1) IN
    IF k = 0 THEN <<s>>
    ELSE <<SubSeq(s, 1, k - 1)>> \o str_lines_split(SubSeq(s, k + 1, Len(s)))

\* str::lines: split after each "\n"; the "\n" and a "\r" before it are dropped;
\* a last segment with no "\n" is a line, and nothing follows a final "\n"
RECURSIVE str_lines(_)
str_lines(s) ==
    IF s = <<>> THEN <<>>
    ELSE LET k == first_newline(s, 1) IN
         IF k = 0 THEN <<s>>
         ELSE LET seg == SubSeq(s, 1, k - 1)
                  line == IF seg # <<>> /\ seg[Len(seg)] = "\r"
                          THEN SubSeq(seg, 1, Len(seg) - 1) ELSE seg
              IN <<line>> \o str_lines(SubSeq(s, k + 1, Len(s)))

\* str::split_whitespace().count(): the maximal runs of non-whitespace
split_whitespace_count(s) ==
    Cardinality({ i \in DOMAIN s :
        /\ s[i] \notin Whitespace
        /\ (i = 1 \/ s[i - 1] \in Whitespace) })

\* str::len: the length in bytes
RECURSIVE str_len(_)
str_len(s) == IF s = <<>> THEN 0 ELSE utf8_len(Head(s)) + str_len(Tail(s))

\* .map(|l| l.len()).max().unwrap_or(0)
RECURSIVE max_len(_)
max_len(ls) == IF ls = <<>> THEN 0 ELSE Max(str_len(Head(ls)), max_len(Tail(ls)))

from_content(content) ==
    [lines |-> Len(str_lines(content)),
     words |-> split_whitespace_count(content),
     bytes |-> str_len(content),
     max_line_length |-> max_len(str_lines(content))]

----------------------------------------------------------------------------
(* SpecContent: one call of Count::from_content *)

\* a content is at most this many characters long
MaxLen == 3

\* the characters a content is made of: a letter, the white space that separates
\* words and lines, and a character of two bytes
CharSet == {"a", " ", "\n", "\r", "U+00E9"}

ContentSet == UNION { [1..n -> CharSet] : n \in 0..MaxLen }

ContentInit ==
    /\ text \in ContentSet
    /\ counted = None
    /\ IdleFormat
    /\ IdleMerge
    /\ IdleDir
    /\ IdleDriver

\* Count::from_content(content)
FromContent ==
    /\ counted = None
    /\ counted' = Some(from_content(text))
    /\ UNCHANGED <<text, subject, rendered, mergeVars, fsVars, dirVars, drvVars>>

ContentNext == FromContent

SpecContent == ContentInit /\ [][ContentNext]_vars

----------------------------------------------------------------------------
(* The file system a directory call runs on *)

\* the regular files that may exist under the root, as paths relative to it
FileA == << <<"a">> >>
FileDotH == << <<".", "h">> >>
FileDotGB == << <<".", "g">>, <<"b">> >>
FileSA == << <<"s">>, <<"a">> >>
FileSC == << <<"s">>, <<"c">> >>
\* a name that starts with "." and is not valid UTF-8
FileDotRaw == << <<".", "0xFF">> >>
FileUniverse == {FileA, FileDotH, FileDotGB, FileSA, FileSC, FileDotRaw}

\* what each file holds
Content(rel) ==
    CASE rel = FileA -> <<"a", " ", "a", "\n">>
      [] rel = FileDotH -> <<"a", "\n">>
      [] rel = FileDotGB -> <<"U+00E9", "a">>
      [] rel = FileSA -> <<>>
      [] rel = FileSC -> <<"a", "\r", "\n", "a", "a", "a", "a", "\n">>
      [] rel = FileDotRaw -> <<"a", "a", "\n">>

RootNames == { <<"d">>, <<".", "d">> }

\* the path handed to the walk
RootPath == <<root>>

\* the regular files and the directories under (and including) the root, as full paths
Files == { RootPath \o f : f \in present }
Dirs ==
    ({RootPath} \cup { RootPath \o SubSeq(f, 1, k) : f \in present, k \in 0..1 }) \ Files
\* the entries read_dir(d) lists
Children(d) ==
    { e \in Files \cup Dirs : Len(e) = Len(d) + 1 /\ SubSeq(e, 1, Len(d)) = d }
\* read_dir fails on a directory that cannot be opened
Openable(d) == d # RootPath \/ root_openable

\* DirEntry::depth, DirEntry::file_name
depth(e) == Len(e) - Len(RootPath)
file_name(e) == e[Len(e)]

----------------------------------------------------------------------------
(* Glob patterns: counter.rs 82-123 *)

PatStarA == <<"*", "a">>
PatSDir == <<"s", "/", "*">>
PatDot == <<".", "*">>
PatBad == <<"[", "a">>

ExcludeChoices == { <<>>, <<PatSDir>>, <<PatStarA, PatBad>> }
IncludeChoices == { <<>>, <<PatStarA>>, <<PatStarA, PatDot>>, <<PatBad>> }

\* Glob::new fails on an unclosed character class
Glob_new_ok(pattern) == \A i \in DOMAIN pattern : pattern[i] # "["

\* a compiled glob against a string: "*" matches any run of characters, the
\* separator included
RECURSIVE glob_is_match(_, _)
glob_is_match(pattern, s) ==
    IF pattern = <<>> THEN s = <<>>
    ELSE IF Head(pattern) = "*"
         THEN \/ glob_is_match(Tail(pattern), s)
              \/ (s # <<>> /\ glob_is_match(pattern, Tail(s)))
         ELSE /\ s # <<>>
              /\ Head(s) = Head(pattern)
              /\ glob_is_match(Tail(pattern), Tail(s))

\* FilterConfig::build_globset where a malformed pattern is left out of the set
build_globset_skips_bad(patterns) ==
    [ok |-> TRUE,
     set |-> { patterns[i] : i \in { j \in DOMAIN patterns : Glob_new_ok(patterns[j]) } }]

\* FilterConfig::build_globset
build_globset(patterns) ==
    IF \E i \in DOMAIN patterns : ~Glob_new_ok(patterns[i])
    THEN [ok |-> FALSE, err |-> "InvalidInput"]
    ELSE [ok |-> TRUE, set |-> Range(patterns)]

GlobSet_is_match(glob_set, s) == \E g \in glob_set : glob_is_match(g, s)

matches_glob(glob_set, relative_path) ==
    LET path_str == to_string_lossy(relative_path) IN
    GlobSet_is_match(glob_set, path_str)
        \/ GlobSet_is_match(glob_set, as_os_str(relative_path))

\* str::starts_with
starts_with(s, ch) == s # <<>> /\ Head(s) = ch

\* fn is_hidden: entry.file_name().to_str().is_some_and(|s| s.starts_with('.'))
is_hidden(e) ==
    LET s == to_str(file_name(e)) IN
    s.state = "some" /\ starts_with(s.value, ".")

----------------------------------------------------------------------------
(* walk_directory: counter.rs 125-152 *)

\* a filter_entry that applies the hidden rule to the root as well
filter_entry_root_too(e) ==
    config.include_hidden \/ ~is_hidden(e)

\* .filter_entry(|e| e.depth() == 0 || config.include_hidden || !is_hidden(e))
filter_entry(e) ==
    depth(e) = 0 \/ config.include_hidden \/ ~is_hidden(e)

\* the closure of filter_map where an include match overrides an exclude match
accepts_include_first(exclude_set, include_set, has_include_patterns, file_path) ==
    LET relative_path == strip_prefix(file_path, RootPath) IN
    IF has_include_patterns
    THEN matches_glob(include_set, relative_path)
    ELSE ~matches_glob(exclude_set, relative_path)

\* the closure of filter_map: TRUE for Some(file_path), FALSE for None
accepts(exclude_set, include_set, has_include_patterns, file_path) ==
    LET relative_path == strip_prefix(file_path, RootPath) IN
    IF matches_glob(exclude_set, relative_path) THEN FALSE
    ELSE IF has_include_patterns /\ ~matches_glob(include_set, relative_path) THEN FALSE
    ELSE TRUE

exclude_set == build_globset(config.exclude_patterns)
include_set == build_globset(config.include_patterns)
has_include_patterns == config.include_patterns # <<>>

\* the open directories whose listing is exhausted are closed
RECURSIVE pop_exhausted(_)
pop_exhausted(st) ==
    IF st # <<>> /\ st[Len(st)] = {} THEN pop_exhausted(SubSeq(st, 1, Len(st) - 1))
    ELSE st

Pending == [state |-> "pending"]

\* lines 126-130: both glob sets are built, each failure returned by `?`, before
\* WalkDir::new(path) is iterated
WalkStart ==
    /\ dpc = "start"
    /\ IF exclude_set.ok /\ include_set.ok
       THEN /\ dpc' = "walk"
            /\ stack' = << {RootPath} >>
            /\ dresult' = dresult
       ELSE /\ dpc' = "done"
            /\ stack' = stack
            /\ dresult' = [ok |-> FALSE, err |-> "InvalidInput"]
    /\ UNCHANGED <<textVars, mergeVars, drvVars, fsVars, visited, file_paths, slots>>

\* lines 130-149: one entry of the WalkDir iterator through the filter chain.
\* WalkDir lists a directory in the order read_dir gives, which is any order; an
\* entry that filter_entry rejects is neither yielded nor descended into; an
\* error (a directory that cannot be opened) is dropped by filter_map(|e| e.ok()).
WalkNext ==
    /\ dpc = "walk"
    /\ \E e \in stack[Len(stack)] :
         LET rest == [stack EXCEPT ![Len(stack)] = @ \ {e}]
             kept == filter_entry(e)
             opened == IF kept /\ e \in Dirs /\ Openable(e)
                       THEN Append(rest, Children(e)) ELSE rest
             st == pop_exhausted(opened)
             found == IF kept /\ e \in Files
                         /\ accepts(exclude_set.set, include_set.set,
                                    has_include_patterns, e)
                      THEN Append(file_paths, e) ELSE file_paths
         IN /\ stack' = st
            /\ visited' = IF kept THEN visited \cup {e} ELSE visited
            /\ file_paths' = found
            /\ dpc' = IF st = <<>> THEN "count" ELSE "walk"
            /\ slots' = IF st = <<>> THEN [i \in DOMAIN found |-> Pending] ELSE slots
    /\ UNCHANGED <<textVars, mergeVars, drvVars, fsVars, dresult>>

----------------------------------------------------------------------------
(* count_file and count_directory_detailed: counter.rs 102-105, 159-181 *)

Ok(v) == [ok |-> TRUE, value |-> v]
Err(e) == [ok |-> FALSE, err |-> e]

\* fs::read_to_string(path)?, then Count::from_content
count_file(path) ==
    LET rel == strip_prefix(path, RootPath) IN
    IF rel \in present /\ rel \notin unreadable
    THEN Ok(from_content(Content(rel)))
    ELSE Err("io")

FileEntry(p, c) == [path |-> p, count |-> c]

\* the closure of the parallel filter_map where a failed read counts as empty
count_one_zero_on_error(file_path) ==
    LET r == count_file(file_path) IN
    IF r.ok THEN Some(FileEntry(file_path, r.value))
    ELSE Some(FileEntry(file_path, Count_default))

\* the closure of the parallel filter_map:
\* count_file(file_path).ok().map(|count| FileEntry { path, count })
count_one(file_path) ==
    LET r == count_file(file_path) IN
    IF r.ok THEN Some(FileEntry(file_path, r.value)) ELSE None

\* the entries left in the order the workers' results were collected
sort_by_unsorted(entries) == entries

\* slice::sort_by(|a, b| a.path.cmp(&b.path)): stable, ascending
RECURSIVE sort_by_path(_)
sort_by_path(entries) ==
    IF entries = <<>> THEN <<>>
    ELSE LET n == Len(entries)
             x == entries[n]
             front == sort_by_path(SubSeq(entries, 1, n - 1))
             \* x goes after every element that is not greater than it
             k == Cardinality({ i \in DOMAIN front : ~path_less(x.path, front[i].path) })
         IN SubSeq(front, 1, k) \o <<x>> \o SubSeq(front, k + 1, Len(front))

\* a collect that stops at the first path whose read failed
RECURSIVE collect_until_none(_)
collect_until_none(sl) ==
    IF sl = <<>> THEN <<>>
    ELSE IF Head(sl).state = "some"
         THEN <<Head(sl).value>> \o collect_until_none(Tail(sl))
    ELSE <<>>

\* a collect that takes the result of every successful read twice
RECURSIVE collect_repeating(_)
collect_repeating(sl) ==
    IF sl = <<>> THEN <<>>
    ELSE IF Head(sl).state = "some"
         THEN <<Head(sl).value, Head(sl).value>> \o collect_repeating(Tail(sl))
    ELSE collect_repeating(Tail(sl))

\* collect(): rayon keeps the order of file_paths, whatever order the workers ran in
RECURSIVE collect(_)
collect(sl) ==
    IF sl = <<>> THEN <<>>
    ELSE IF Head(sl).state = "some" THEN <<Head(sl).value>> \o collect(Tail(sl))
    ELSE collect(Tail(sl))

counts_of(entries) == [i \in DOMAIN entries |-> entries[i].count]

\* lines 166-174: a worker of the pool takes one path that no worker has taken
CountOne ==
    /\ dpc = "count"
    /\ \E i \in DOMAIN slots :
         /\ slots[i] = Pending
         /\ slots' = [slots EXCEPT ![i] = count_one(file_paths[i])]
    /\ UNCHANGED <<textVars, mergeVars, drvVars, fsVars, dpc, stack, visited, file_paths, dresult>>

\* lines 174-180: the join, then the sort, the total and the return
Collect ==
    /\ dpc = "count"
    /\ \A i \in DOMAIN slots : slots[i] # Pending
    /\ LET entries == sort_by_path(collect(slots))
           total == sum(counts_of(entries))
       IN dresult' = [ok |-> TRUE, entries |-> entries, total |-> total]
    /\ dpc' = "done"
    /\ UNCHANGED <<textVars, mergeVars, drvVars, fsVars, stack, visited, file_paths, slots>>

\* count_directory: counter.rs 154-157
count_directory(r) ==
    IF r.ok THEN Ok(<<r.total, Len(r.entries)>>) ELSE r

DirInit ==
    /\ IdleText
    /\ IdleFormat
    /\ IdleMerge
    /\ IdleDriver
    /\ root \in RootNames
    /\ present \in { fs \in SUBSET FileUniverse : Cardinality(fs) <= MaxFiles }
    /\ unreadable \in SUBSET present
    /\ root_openable \in BOOLEAN
    /\ config \in [include_hidden : BOOLEAN,
                   exclude_patterns : ExcludeChoices,
                   include_patterns : IncludeChoices]
    /\ dpc = "start"
    /\ stack = <<>>
    /\ visited = {}
    /\ file_paths = <<>>
    /\ slots = <<>>
    /\ dresult = [ok |-> FALSE, err |-> "none"]

DirNext == WalkStart \/ WalkNext \/ CountOne \/ Collect

SpecDir == DirInit /\ [][DirNext]_vars

\* The calls without glob patterns, for the progress of the counting phase:
\* par_iter() hands every path to a worker of the pool and collect() joins them
\* all, so no worker waits for ever and the join is taken once all have answered.
CountInit ==
    /\ DirInit
    /\ root = <<"d">>
    /\ root_openable
    /\ config.exclude_patterns = <<>>
    /\ config.include_patterns = <<>>

\* a path is still to be taken by a worker: the states where CountOne can act
CanCountOne == dpc = "count" /\ \E i \in DOMAIN slots : slots[i] = Pending

\* every worker has answered: the states where Collect can act
CanCollect == dpc = "count" /\ \A i \in DOMAIN slots : slots[i] # Pending

\* Weak fairness of the four steps.  For CountOne and Collect it is written out,
\* WF_vars(A) being []<>~ENABLED <<A>>_vars \/ []<><<A>>_vars, with the guard of
\* the action for ENABLED: each of the two changes slots or dpc whenever its
\* guard holds.
SpecCount ==
    /\ CountInit
    /\ [][DirNext]_vars
    /\ WF_vars(WalkStart)
    /\ WF_vars(WalkNext)
    /\ ([]<>(~CanCountOne) \/ []<><<CountOne>>_vars)
    /\ ([]<>(~CanCollect) \/ []<><<Collect>>_vars)

----------------------------------------------------------------------------
(* Args: cli.rs 51-71. The flags are passed as the record a. *)

\* a show_all that does not look at max_line_length
show_all_without_max(a) == ~a.lines /\ ~a.words /\ ~a.bytes

show_all(a) == ~a.lines /\ ~a.words /\ ~a.bytes /\ ~a.max_line_length
show_lines(a) == a.lines \/ show_all(a)
show_words(a) == a.words \/ show_all(a)
show_bytes(a) == a.bytes \/ show_all(a)
show_max_line_length(a) == a.max_line_length

----------------------------------------------------------------------------
(* Rendering: output.rs. A String is a string of characters; a character that *)
(* is not ASCII is written <U+hhhh>.                                          *)

Digit == <<"0", "1", "2", "3", "4", "5", "6", "7", "8", "9">>

\* usize::to_string: the decimal digits
RECURSIVE to_string(_)
to_string(n) ==
    IF n < 10 THEN Digit[n + 1] ELSE to_string(n \div 10) \o Digit[(n % 10) + 1]

\* slice::rchunks(k): chunks of k taken from the end, the last one shorter
RECURSIVE rchunks(_, _)
rchunks(s, k) ==
    IF Len(s) = 0 THEN <<>>
    ELSE IF Len(s) <= k THEN <<s>>
    ELSE <<SubSeq(s, Len(s) - k + 1, Len(s))>> \o rchunks(SubSeq(s, 1, Len(s) - k), k)

\* Iterator::rev
rev(xs) == [i \in DOMAIN xs |-> xs[Len(xs) + 1 - i]]

\* [String]::join(sep)
RECURSIVE join(_, _)
join(xs, sep) ==
    IF xs = <<>> THEN ""
    ELSE IF Len(xs) = 1 THEN xs[1]
    ELSE xs[1] \o sep \o join(Tail(xs), sep)

\* slice::chunks(k): chunks of k taken from the start, the last one shorter
RECURSIVE chunks(_, _)
chunks(s, k) ==
    IF Len(s) = 0 THEN <<>>
    ELSE IF Len(s) <= k THEN <<s>>
    ELSE <<SubSeq(s, 1, k)>> \o chunks(SubSeq(s, k + 1, Len(s)), k)

\* a format_number that groups the digits from the left
format_number_from_left(n) == join(chunks(to_string(n), 3), ",")

\* output.rs 9-17
format_number(n) == join(rev(rchunks(to_string(n), 3)), ",")

RECURSIVE repeat(_, _)
repeat(s, n) == IF n = 0 THEN "" ELSE s \o repeat(s, n - 1)

\* format!("{:>w}", s): s right-aligned in a field of w characters
pad_left(s, w) == IF Len(s) >= w THEN s ELSE repeat(" ", w - Len(s)) \o s

\* output.rs 19-37
format_count_lines(count, a) ==
    (IF show_max_line_length(a)
     THEN <<"Max Line: " \o pad_left(format_number(count.max_line_length), 10)>>
     ELSE <<>>)
    \o (IF show_lines(a)
        THEN <<"   Lines: " \o pad_left(format_number(count.lines), 10)>> ELSE <<>>)
    \o (IF show_words(a)
        THEN <<"   Words: " \o pad_left(format_number(count.words), 10)>> ELSE <<>>)
    \o (IF show_bytes(a)
        THEN <<"   Bytes: " \o pad_left(format_number(count.bytes), 10)>> ELSE <<>>)

\* output.rs 39-45
pluralize_files(count) == IF count = 1 THEN "file" ELSE "files"

\* output.rs 47-48
FILE_ICON == "<U+1F4C4> "
DIR_ICON == "<U+1F4C1> "

\* a format_header that drops the icon of a file only
format_header_dir_icon_always(name, kind, no_color) ==
    IF kind.kind = "File"
    THEN (IF no_color THEN "" ELSE FILE_ICON) \o name
    ELSE DIR_ICON \o name \o " ("
           \o to_string(kind.file_count) \o " " \o pluralize_files(kind.file_count)
           \o ")"

\* output.rs 50-64
format_header(name, kind, no_color) ==
    IF kind.kind = "File"
    THEN (IF no_color THEN "" ELSE FILE_ICON) \o name
    ELSE (IF no_color THEN "" ELSE DIR_ICON) \o name \o " ("
           \o to_string(kind.file_count) \o " " \o pluralize_files(kind.file_count)
           \o ")"

\* output.rs 66-70
format_output(name, count, kind, a) ==
    join(<<format_header(name, kind, a.no_color)>> \o format_count_lines(count, a),
         "\n")

\* output.rs 72-74: a rule of 25 box-drawing characters
format_separator == repeat("<U+2500>", 25)

\* output.rs 76-91
format_compact_counts(count, a) ==
    join((IF show_max_line_length(a)
          THEN <<"max:" \o format_number(count.max_line_length)>> ELSE <<>>)
         \o (IF show_lines(a) THEN <<format_number(count.lines) \o " lines">> ELSE <<>>)
         \o (IF show_words(a) THEN <<format_number(count.words) \o " words">> ELSE <<>>)
         \o (IF show_bytes(a) THEN <<format_number(count.bytes) \o " bytes">> ELSE <<>>),
         ", ")

\* output.rs 93-101
format_compact_output(name, count, kind, a) ==
    LET header == IF kind.kind = "File"
                  THEN name \o ":"
                  ELSE name \o " (" \o to_string(kind.file_count) \o " "
                         \o pluralize_files(kind.file_count) \o "): "
    IN header \o " " \o format_compact_counts(count, a)

\* output.rs 103-110
format_compact_total(file_count, count, a) ==
    "Total (" \o to_string(file_count) \o " " \o pluralize_files(file_count) \o "): "
      \o format_compact_counts(count, a)

\* a format_single_count that takes the first flag set, in the order lines,
\* words, bytes, max_line_length
format_single_count_first_set(count, a) ==
    IF a.lines THEN format_number(count.lines) \o " lines"
    ELSE IF a.words THEN format_number(count.words) \o " words"
    ELSE IF a.bytes THEN format_number(count.bytes) \o " bytes"
    ELSE IF a.max_line_length THEN format_number(count.max_line_length) \o " max"
    ELSE format_number(count.lines) \o " lines"

\* output.rs 112-120: the match on (lines, words, bytes, max_line_length)
format_single_count(count, a) ==
    LET flags == <<a.lines, a.words, a.bytes, a.max_line_length>>
        pair == CASE flags = <<FALSE, TRUE, FALSE, FALSE>> -> <<count.words, "words">>
                  [] flags = <<FALSE, FALSE, TRUE, FALSE>> -> <<count.bytes, "bytes">>
                  [] flags = <<FALSE, FALSE, FALSE, TRUE>> ->
                         <<count.max_line_length, "max">>
                  [] OTHER -> <<count.lines, "lines">>
    IN format_number(pair[1]) \o " " \o pair[2]

\* a character of a path as it is written in a String
glyph(ch) == IF Len(ch) > 1 THEN "<" \o ch \o ">" ELSE ch

RECURSIVE glyphs(_)
glyphs(chars) == IF chars = <<>> THEN "" ELSE glyph(Head(chars)) \o glyphs(Tail(chars))

\* Path::display: the lossy conversion of the path
display(p) == glyphs(to_string_lossy(p))

\* output.rs 122-129
format_verbose_entry(entry, a) ==
    (IF a.no_color THEN "" ELSE FILE_ICON) \o display(entry.path) \o "  "
      \o format_single_count(entry.count, a)

\* output.rs 131-148
format_verbose_output(entries, total, a) ==
    LET file_count == Len(entries) IN
    join([i \in DOMAIN entries |-> format_verbose_entry(entries[i], a)]
           \o <<format_separator>>
           \o <<(IF a.no_color THEN "" ELSE DIR_ICON) \o "Total ("
                  \o to_string(file_count) \o " " \o pluralize_files(file_count)
                  \o ")  " \o format_single_count(total, a)>>,
         "\n")

\* output.rs 204-210
format_total_output(file_count, count, a) ==
    LET header == (IF a.no_color THEN "" ELSE DIR_ICON) \o "Total ("
                    \o to_string(file_count) \o " " \o pluralize_files(file_count)
                    \o ")"
    IN join(<<header>> \o format_count_lines(count, a), "\n")

\* str::replace(from, to) for a pattern of one character
RECURSIVE replace(_, _, _)
replace(s, from, to) ==
    IF Len(s) = 0 THEN ""
    ELSE (IF Head(s) = from THEN to ELSE Head(s)) \o replace(Tail(s), from, to)

\* the five replacements with the backslash last
escape_json_backslash_last(s) ==
    replace(replace(replace(replace(replace(s, "\"", "\\\""),
                                    "\n", "\\n"),
                            "\r", "\\r"),
                    "\t", "\\t"),
            "\\", "\\\\")

\* output.rs 196-202: the five replacements, the backslash first
escape_json(s) ==
    replace(replace(replace(replace(replace(s, "\\", "\\\\"),
                                    "\"", "\\\""),
                            "\n", "\\n"),
                    "\r", "\\r"),
            "\t", "\\t")

\* Option::unwrap_or
unwrap_or(opt, default) == IF opt.state = "some" THEN opt.value ELSE default

\* the four metric fields of a JSON object, as the format strings write them
json_metrics(count) ==
    "\"max_line_length\":" \o to_string(count.max_line_length)
      \o ",\"lines\":" \o to_string(count.lines)
      \o ",\"words\":" \o to_string(count.words)
      \o ",\"bytes\":" \o to_string(count.bytes)

\* a format_json_single that writes the metrics the display flags select
format_json_single_by_flags(result) ==
    LET shown == (IF show_max_line_length(args)
                  THEN <<"\"max_line_length\":" \o to_string(result.count.max_line_length)>>
                  ELSE <<>>)
                 \o (IF show_lines(args)
                     THEN <<"\"lines\":" \o to_string(result.count.lines)>> ELSE <<>>)
                 \o (IF show_words(args)
                     THEN <<"\"words\":" \o to_string(result.count.words)>> ELSE <<>>)
                 \o (IF show_bytes(args)
                     THEN <<"\"bytes\":" \o to_string(result.count.bytes)>> ELSE <<>>)
    IN IF result.is_directory
       THEN "{\"directory\":\"" \o escape_json(result.name) \o "\",\"file_count\":"
              \o to_string(unwrap_or(result.file_count, 0)) \o ","
              \o join(shown, ",") \o "}"
       ELSE "{\"file\":\"" \o escape_json(result.name) \o "\","
              \o join(shown, ",") \o "}"

\* output.rs 158-179
format_json_single(result) ==
    IF result.is_directory
    THEN "{\"directory\":\"" \o escape_json(result.name) \o "\",\"file_count\":"
           \o to_string(unwrap_or(result.file_count, 0)) \o ","
           \o json_metrics(result.count) \o "}"
    ELSE "{\"file\":\"" \o escape_json(result.name) \o "\","
           \o json_metrics(result.count) \o "}"

\* a sum of the file counts in which an input without a file_count adds nothing
RECURSIVE sum_file_counts_of_directories(_)
sum_file_counts_of_directories(rs) ==
    IF rs = <<>> THEN 0
    ELSE unwrap_or(Head(rs).file_count, 0) + sum_file_counts_of_directories(Tail(rs))

\* results.iter().map(|r| r.file_count.unwrap_or(1)).sum()
RECURSIVE sum_file_counts(_)
sum_file_counts(rs) ==
    IF rs = <<>> THEN 0 ELSE unwrap_or(Head(rs).file_count, 1) + sum_file_counts(Tail(rs))

\* output.rs 181-194
format_json_multiple(rs, total) ==
    LET files_json == [i \in DOMAIN rs |-> format_json_single(rs[i])]
        n_files == sum_file_counts(rs)   \* the local total_file_count
    IN "{\"files\":[" \o join(files_json, ",") \o "],\"total\":{\"file_count\":"
         \o to_string(n_files) \o "," \o json_metrics(total) \o "}}"

----------------------------------------------------------------------------
(* SpecFormat: one call of escape_json or of format_number *)

\* a string handed to escape_json is at most this many characters long
MaxStr == 3
\* a number handed to format_number has at most this many digits
MaxDigits == 7

\* the characters of the strings: the five that escape_json replaces, the letter
\* n that an escape ends in, and a letter
StrChars == {"\\", "\"", "\n", "\r", "\t", "n", "a"}

\* the digits the numbers are written with
DigitChoices == {0, 1, 9}

\* the String of a sequence of characters
RECURSIVE concat(_)
concat(chars) == IF chars = <<>> THEN "" ELSE Head(chars) \o concat(Tail(chars))

\* the number a sequence of digits writes
RECURSIVE number_of(_)
number_of(ds) ==
    IF ds = <<>> THEN 0 ELSE 10 * number_of(SubSeq(ds, 1, Len(ds) - 1)) + ds[Len(ds)]

StringSet == { concat(cs) : cs \in UNION { [1..k -> StrChars] : k \in 0..MaxStr } }
NumberSet == { number_of(ds) : ds \in UNION { [1..k -> DigitChoices] : k \in 1..MaxDigits } }

FormatInit ==
    /\ IdleText
    /\ IdleMerge
    /\ IdleDir
    /\ IdleDriver
    /\ subject \in { [kind |-> "str", value |-> str] : str \in StringSet }
                     \cup { [kind |-> "num", value |-> n] : n \in NumberSet }
    /\ rendered = None

\* escape_json(s)
EscapeJson ==
    /\ subject.kind = "str"
    /\ rendered = None
    /\ rendered' = Some(escape_json(subject.value))
    /\ UNCHANGED <<text, counted, subject, mergeVars, fsVars, dirVars, drvVars>>

\* format_number(n)
FormatNumber ==
    /\ subject.kind = "num"
    /\ rendered = None
    /\ rendered' = Some(format_number(subject.value))
    /\ UNCHANGED <<text, counted, subject, mergeVars, fsVars, dirVars, drvVars>>

FormatNext == EscapeJson \/ FormatNumber

SpecFormat == FormatInit /\ [][FormatNext]_vars

----------------------------------------------------------------------------
(* The driver: main.rs *)

\* what count_directory_detailed returns for a directory holding these files
detailed(files) ==
    LET entries == sort_by_path(files) IN
    [ok |-> TRUE, entries |-> entries, total |-> sum(counts_of(entries))]

\* The top-level paths a run may be given. `core` is what the core returns for
\* the path: count_file's io::Result<Count> for a path that is no directory,
\* count_directory_detailed's result for a directory.
InputFileX ==
    [name |-> "x.txt", is_dir |-> FALSE,
     core |-> Ok(from_content(<<"a", " ", "a", "\n">>))]
InputFileY ==
    [name |-> "y.txt", is_dir |-> FALSE,
     core |-> Ok(from_content(<<"a", "a", "a", "a", "\n", "a", "\n">>))]
InputMissing ==
    [name |-> "nonexistent.txt", is_dir |-> FALSE, core |-> Err("NotFound")]
InputDirEmpty ==
    [name |-> "empty", is_dir |-> TRUE, core |-> detailed(<<>>)]
InputDirTwo ==
    [name |-> "src", is_dir |-> TRUE,
     core |-> detailed(<< FileEntry(<< <<"s", "r", "c">>, <<"s">>, <<"c">> >>, from_content(Content(FileSC))),
                          FileEntry(<< <<"s", "r", "c">>, <<"a">> >>, from_content(Content(FileA))) >>)]
InputDirBad ==
    [name |-> "bad", is_dir |-> TRUE, core |-> Err("InvalidInput")]

InputChoices ==
    {InputFileX, InputFileY, InputMissing, InputDirEmpty, InputDirTwo, InputDirBad}

\* sequences over S of length at most n
SeqsUpTo(S, n) == UNION { [1..k -> S] : k \in 0..n }

\* the display flags of Args
NoFlags ==
    [lines |-> FALSE, words |-> FALSE, bytes |-> FALSE, max_line_length |-> FALSE,
     no_color |-> FALSE]
Flags ==
    [lines : BOOLEAN, words : BOOLEAN, bytes : BOOLEAN, max_line_length : BOOLEAN,
     no_color : BOOLEAN]
\* the flags that choose the mode
Modes == [json : BOOLEAN, compact : BOOLEAN, verbose : BOOLEAN]
\* the display flags the runs of SpecDriver are given: none, and -w --no-color
DriverFlags == {NoFlags, [NoFlags EXCEPT !.words = TRUE, !.no_color = TRUE]}

\* struct Args: cli.rs 9-49
Args(files, m, fl) ==
    [files |-> files, json |-> m.json, compact |-> m.compact, verbose |-> m.verbose,
     lines |-> fl.lines, words |-> fl.words, bytes |-> fl.bytes,
     max_line_length |-> fl.max_line_length, no_color |-> fl.no_color]

\* a process_path that answers a failure with an empty result
process_path_default_on_error(file) ==
    IF file.is_dir
    THEN LET r == count_directory(file.core) IN
         IF r.ok THEN Ok([count |-> r.value[1], file_count |-> r.value[2]])
         ELSE Ok([count |-> Count_default, file_count |-> 0])
    ELSE IF file.core.ok THEN Ok([count |-> file.core.value, file_count |-> 1])
         ELSE Ok([count |-> Count_default, file_count |-> 1])

\* fn process_path: main.rs 21-32
process_path(file) ==
    IF file.is_dir
    THEN LET r == count_directory(file.core) IN
         IF r.ok THEN Ok([count |-> r.value[1], file_count |-> r.value[2]])
         ELSE r
    ELSE IF file.core.ok THEN Ok([count |-> file.core.value, file_count |-> 1])
         ELSE file.core

\* Option<usize>
NoFileCount == [state |-> "none"]

\* OutputKind
OutputKind_File == [kind |-> "File"]
OutputKind_Directory(n) == [kind |-> "Directory", file_count |-> n]

\* what one println! writes: the text, with the formatter that made it and what
\* the formatter was given
Printed_verbose(entries, total) ==
    [fn |-> "format_verbose_output", entries |-> entries, count |-> total,
     text |-> format_verbose_output(entries, total, args)]
\* a print of one input that takes the verbose listing whenever the flag is set
Printed_output_listing_if_verbose(compact, name, count, kind) ==
    IF args.verbose
    THEN [fn |-> "format_verbose_output", entries |-> <<FileEntry(<<name>>, count)>>,
          count |-> count,
          text |-> format_verbose_output(<<>>, count, args)]
    ELSE [fn |-> IF compact THEN "format_compact_output" ELSE "format_output",
          name |-> name, count |-> count, kind |-> kind,
          text |-> IF compact THEN format_compact_output(name, count, kind, args)
                   ELSE format_output(name, count, kind, args)]

Printed_output(compact, name, count, kind) ==
    [fn |-> IF compact THEN "format_compact_output" ELSE "format_output",
     name |-> name, count |-> count, kind |-> kind,
     text |-> IF compact THEN format_compact_output(name, count, kind, args)
              ELSE format_output(name, count, kind, args)]
Printed_total(compact, file_count, count) ==
    [fn |-> IF compact THEN "format_compact_total" ELSE "format_total_output",
     file_count |-> file_count, count |-> count,
     text |-> IF compact THEN format_compact_total(file_count, count, args)
              ELSE format_total_output(file_count, count, args)]
Printed_blank == [fn |-> "println", text |-> ""]
Printed_separator == [fn |-> "format_separator", text |-> format_separator]
Printed_json_single(single) ==
    [fn |-> "format_json_single", result |-> single, text |-> format_json_single(single)]
Printed_json_multiple(rs, total) ==
    [fn |-> "format_json_multiple", results |-> rs, count |-> total,
     text |-> format_json_multiple(rs, total)]

\* main.rs 14
WARNING_ICON == "<U+26A0><U+FE0F>"

\* Display of the io::Error the core returned
io_error_display(e) ==
    CASE e = "NotFound" -> "No such file or directory (os error 2)"
      [] e = "InvalidInput" -> "Invalid glob pattern '[a': unclosed character class"
      [] OTHER -> "Permission denied (os error 13)"

\* eprintln!("{WARNING_ICON}  {file}: {e}")
Warning(name, e) ==
    [icon |-> "WARNING_ICON", file |-> name, error |-> e,
     text |-> WARNING_ICON \o "  " \o name \o ": " \o io_error_display(e)]

\* fn main: main.rs 34-48
Main ==
    /\ pc = "main"
    /\ IF args.files = <<>>
       THEN /\ stderr' = Append(stderr, "ewc: No files specified")
            /\ exit_code' = 1
            /\ pc' = "exited"
       ELSE /\ pc' = IF args.json THEN "json" ELSE "normal"
            /\ UNCHANGED <<stderr, exit_code>>
    /\ UNCHANGED <<textVars, mergeVars, fsVars, dirVars, args, index, has_error, total_count,
                   total_file_count, successful_args, results, stdout>>

\* run_json_mode, one iteration of the loop: main.rs 55-70
JsonIter ==
    /\ pc = "json"
    /\ index < Len(args.files)
    /\ LET file == args.files[index + 1]
           r == process_path(file)
       IN IF ~r.ok
          THEN /\ has_error' = TRUE
               /\ UNCHANGED <<results, total_count>>
          ELSE LET is_directory == file.is_dir IN
               /\ results' = Append(results,
                      [name |-> file.name,
                       count |-> r.value.count,
                       is_directory |-> is_directory,
                       file_count |-> IF is_directory THEN Some(r.value.file_count)
                                      ELSE NoFileCount])
               /\ total_count' = add_assign(total_count, r.value.count)
               /\ UNCHANGED has_error
    /\ index' = index + 1
    /\ UNCHANGED <<textVars, mergeVars, fsVars, dirVars, args, pc, total_file_count,
                   successful_args, stdout, stderr, exit_code>>

\* run_json_mode after the loop: main.rs 72-81
JsonFinish ==
    /\ pc = "json"
    /\ index = Len(args.files)
    /\ stdout' = IF Len(results) = 0 THEN stdout
                 ELSE IF Len(results) = 1
                      THEN Append(stdout, Printed_json_single(results[1]))
                 ELSE Append(stdout, Printed_json_multiple(results, total_count))
    /\ exit_code' = IF has_error THEN 1 ELSE 0
    /\ pc' = "exited"
    /\ UNCHANGED <<textVars, mergeVars, fsVars, dirVars, args, index, has_error, total_count,
                   total_file_count, successful_args, results, stderr>>

\* run_normal_mode, one iteration of the loop: main.rs 90-140
NormalIter ==
    /\ pc = "normal"
    /\ index < Len(args.files)
    /\ LET file == args.files[index + 1]
           file_count == Len(args.files)
           is_last == index = file_count - 1
       IN IF file.is_dir /\ args.verbose
          THEN LET r == file.core IN
               IF r.ok
               THEN /\ stdout' = stdout \o <<Printed_verbose(r.entries, r.total)>>
                                   \o (IF ~is_last THEN <<Printed_blank>> ELSE <<>>)
                    /\ total_count' = add_assign(total_count, r.total)
                    /\ total_file_count' = total_file_count + Len(r.entries)
                    /\ successful_args' = successful_args + 1
                    /\ UNCHANGED <<stderr, has_error>>
               ELSE /\ stderr' = Append(stderr, Warning(file.name, r.err))
                    /\ has_error' = TRUE
                    /\ UNCHANGED <<stdout, total_count, total_file_count,
                                   successful_args>>
          ELSE LET r == process_path(file) IN
               IF r.ok
               THEN LET kind == IF file.is_dir
                                THEN OutputKind_Directory(r.value.file_count)
                                ELSE OutputKind_File
                    IN /\ stdout' =
                            stdout
                              \o <<Printed_output(args.compact, file.name,
                                                  r.value.count, kind)>>
                              \o (IF ~args.compact /\ ~is_last
                                  THEN <<Printed_blank>> ELSE <<>>)
                       /\ total_count' = add_assign(total_count, r.value.count)
                       /\ total_file_count' = total_file_count + r.value.file_count
                       /\ successful_args' = successful_args + 1
                       /\ UNCHANGED <<stderr, has_error>>
               ELSE /\ stderr' = Append(stderr, Warning(file.name, r.err))
                    /\ has_error' = TRUE
                    /\ UNCHANGED <<stdout, total_count, total_file_count,
                                   successful_args>>
    /\ index' = index + 1
    /\ UNCHANGED <<textVars, mergeVars, fsVars, dirVars, args, pc, results, exit_code>>

\* the condition of main.rs 142 taken on the number of arguments
shows_total_by_arguments(n_success, n_files) == n_files > 1

\* main.rs 142: if successful_args > 1
shows_total(n_success, n_files) == n_success > 1

\* run_normal_mode after the loop: main.rs 142-157
NormalFinish ==
    /\ pc = "normal"
    /\ index = Len(args.files)
    /\ stdout' =
         IF shows_total(successful_args, Len(args.files))
         THEN stdout
                \o (IF ~args.compact THEN <<Printed_blank, Printed_separator>>
                    ELSE <<>>)
                \o <<Printed_total(args.compact, total_file_count, total_count)>>
         ELSE stdout
    /\ exit_code' = IF has_error THEN 1 ELSE 0
    /\ pc' = "exited"
    /\ UNCHANGED <<textVars, mergeVars, fsVars, dirVars, args, index, has_error, total_count,
                   total_file_count, successful_args, results, stderr>>

DriverInit ==
    /\ IdleText
    /\ IdleFormat
    /\ IdleMerge
    /\ IdleDir
    /\ args \in { Args(f, m, fl) : f \in SeqsUpTo(InputChoices, MaxInputs),
                                    m \in Modes, fl \in DriverFlags }
    /\ pc = "main"
    /\ index = 0
    /\ has_error = FALSE
    /\ total_count = Count_default
    /\ total_file_count = 0
    /\ successful_args = 0
    /\ results = <<>>
    /\ stdout = <<>>
    /\ stderr = <<>>
    /\ exit_code = "running"

DriverNext == Main \/ JsonIter \/ JsonFinish \/ NormalIter \/ NormalFinish

SpecDriver == DriverInit /\ [][DriverNext]_vars

----------------------------------------------------------------------------
(* SpecFlags: runs of main over fewer paths, under every setting of the flags *)

\* at most this many top-level paths are given to a run of SpecFlags
MaxShown == 2

FlagsInit ==
    /\ IdleText
    /\ IdleFormat
    /\ IdleMerge
    /\ IdleDir
    /\ args \in { Args(f, m, fl) : f \in SeqsUpTo(InputChoices, MaxShown),
                                    m \in Modes, fl \in Flags }
    /\ pc = "main"
    /\ index = 0
    /\ has_error = FALSE
    /\ total_count = Count_default
    /\ total_file_count = 0
    /\ successful_args = 0
    /\ results = <<>>
    /\ stdout = <<>>
    /\ stderr = <<>>
    /\ exit_code = "running"

SpecFlags == FlagsInit /\ [][DriverNext]_vars

----------------------------------------------------------------------------
(* What a directory call is expected to return, stated without any order *)

\* e has a component below the walk root that starts with "."
hidden_below_root(e) ==
    \E k \in (Len(RootPath) + 1)..Len(e) : Head(e[k]) = "."

parent(e) == SubSeq(e, 1, Len(e) - 1)

GlobsOk == exclude_set.ok /\ include_set.ok

\* the Count of the content of a file of the file system
CountOf(f) == from_content(Content(strip_prefix(f, RootPath)))

RECURSIVE SumField(_, _)
SumField(S, k) ==
    IF S = {} THEN 0
    ELSE LET f == CHOOSE x \in S : TRUE IN CountOf(f)[k] + SumField(S \ {f}, k)

MaxField(S, k) ==
    IF S = {} THEN 0
    ELSE CHOOSE m \in { CountOf(f)[k] : f \in S } :
            \A f \in S : CountOf(f)[k] <= m

\* the merge of the Counts of a set of files
TotalOf(S) ==
    Count(SumField(S, "lines"), SumField(S, "words"), SumField(S, "bytes"),
          MaxField(S, "max_line_length"))

\* the files of the file system a call counts, by the rules of the walk and the read
Counted ==
    { f \in Files :
        /\ root_openable
        /\ (config.include_hidden
               \/ \A k \in (Len(RootPath) + 1)..Len(f) : ~is_hidden(SubSeq(f, 1, k)))
        /\ accepts(exclude_set.set, include_set.set, has_include_patterns, f)
        /\ strip_prefix(f, RootPath) \notin unreadable }

Returned == dpc = "done" /\ dresult.ok

PathsOf(entries) == { entries[i].path : i \in DOMAIN entries }

----------------------------------------------------------------------------
(* Claims *)

\* C1: the merge of Counts is commutative and associative with the all-zero
\* Count as its identity, and Sum::sum over the operands taken in any order
\* gives the sum taken in the order of the list.
C1_MergeLaws ==
    operands # <<>> =>
        LET a == operands[1]
            b == operands[2]
            c == operands[3]
        IN /\ add(a, b) = add(b, a)
           /\ add(a, add(b, c)) = add(add(a, b), c)
           /\ add(a, Count_default) = a
           /\ add(Count_default, a) = a
           /\ (Len(order) = Len(operands) => acc = sum(operands))

\* C1 witness: a sum finished in an order that is not the list's, over operands
\* whose longest lines differ
C1_Witness ==
    /\ order = <<3, 1, 2>>
    /\ operands[3].max_line_length > operands[2].max_line_length
    /\ operands[1].lines # operands[2].lines

\* C2: whatever order the walk lists the files in and whatever order the workers
\* finish in, a directory call returns the merge of the Counts of the same set of
\* files, and that set's size as the file count.
C2_TotalIndependentOfOrder ==
    Returned =>
        /\ dresult.total = TotalOf(Counted)
        /\ count_directory(dresult) = Ok(<<TotalOf(Counted), Cardinality(Counted)>>)

\* C2 witness: a call returned three files that the walk had listed in an order
\* other than the sorted one, with a file whose read failed listed before them
C2_Witness ==
    /\ Returned
    /\ Len(dresult.entries) >= 2
    /\ Len(file_paths) >= 3
    /\ ~count_file(file_paths[1]).ok
    /\ path_less(file_paths[3], file_paths[2])

\* C3: the entry list a directory call returns is in strictly ascending path
\* order, so no path appears twice, and it is the one list the file system and
\* the configuration determine.
C3_EntriesSorted ==
    Returned =>
        /\ \A i \in 1..(Len(dresult.entries) - 1) :
              path_less(dresult.entries[i].path, dresult.entries[i + 1].path)
        /\ Range(dresult.entries) = { FileEntry(f, CountOf(f)) : f \in Counted }

\* C3 witness: three entries returned after a walk that listed them in descending order
C3_Witness ==
    /\ Returned
    /\ Len(dresult.entries) = 3
    /\ Len(file_paths) = 3
    /\ path_less(file_paths[3], file_paths[2])
    /\ path_less(file_paths[2], file_paths[1])

\* C4: a regular file the walk reaches is accepted exactly when its path relative
\* to the root matches no exclude pattern and, if there are include patterns,
\* matches one of them; nothing else is accepted.
C4_ExcludeBeatsInclude ==
    GlobsOk =>
        /\ Range(file_paths) \subseteq visited \cap Files
        /\ \A e \in visited \cap Files :
              LET rel == strip_prefix(e, RootPath) IN
              e \in Range(file_paths) <=>
                  /\ ~matches_glob(Range(config.exclude_patterns), rel)
                  /\ \/ config.include_patterns = <<>>
                     \/ matches_glob(Range(config.include_patterns), rel)

\* C4 witness: the walk is over, s/a matched an exclude and an include pattern
\* and was rejected, and a was accepted
C4_Witness ==
    /\ dpc = "count"
    /\ config.exclude_patterns = <<PatSDir>>
    /\ config.include_patterns = <<PatStarA>>
    /\ RootPath \o FileSA \in visited
    /\ RootPath \o FileSA \notin Range(file_paths)
    /\ RootPath \o FileA \in Range(file_paths)

\* C5: without include_hidden the walk yields no entry and accepts no file with a
\* component below the root that starts with ".", and never lists a directory
\* below such a component; with include_hidden, once the walk of an openable root
\* is over, every regular file has been reached. (Violated: is_hidden goes
\* through to_str, which is None for a name that is not valid UTF-8, so the file
\* named by the bytes ".", 0xFF is listed and counted without include_hidden.)
C5_HiddenPruning ==
    /\ ~config.include_hidden =>
          /\ \A e \in visited : ~hidden_below_root(e)
          /\ \A p \in Range(file_paths) : ~hidden_below_root(p)
          /\ \A i \in DOMAIN stack : \A e \in stack[i] : ~hidden_below_root(parent(e))
    /\ (config.include_hidden /\ GlobsOk /\ root_openable /\ dpc \in {"count", "done"}) =>
          Files \subseteq visited

\* C6: a file of the walk whose read fails is dropped and the call still returns
\* Ok: the entries are exactly the listed files that were read, and the total and
\* the file count are theirs.
C6_UnreadableDropped ==
    (dpc = "done" /\ GlobsOk) =>
        LET read == { p \in Range(file_paths) : count_file(p).ok } IN
        /\ dresult.ok
        /\ PathsOf(dresult.entries) = read
        /\ Len(dresult.entries) = Cardinality(read)
        /\ \A i \in DOMAIN dresult.entries :
              dresult.entries[i].count = CountOf(dresult.entries[i].path)
        /\ count_directory(dresult) = Ok(<<TotalOf(read), Cardinality(read)>>)

\* C6 witness: a call returned with one listed file unreadable and two read
C6_Witness ==
    /\ Returned
    /\ Len(file_paths) = 3
    /\ Len(dresult.entries) = 2

\* C7: with a malformed glob among the exclude or include patterns, nothing is
\* ever listed, accepted or counted, and the call returns the error, never Ok.
C7_BadPatternAborts ==
    (\E pat \in Range(config.exclude_patterns) \cup Range(config.include_patterns) :
        ~Glob_new_ok(pat)) =>
        /\ dpc \in {"idle", "start", "done"}
        /\ stack = <<>>
        /\ visited = {}
        /\ file_paths = <<>>
        /\ slots = <<>>
        /\ dpc = "done" => dresult = [ok |-> FALSE, err |-> "InvalidInput"]

\* C7 witness: a call over files returned the error for the pattern list "*a", "[a"
C7_Witness ==
    /\ dpc = "done"
    /\ ~dresult.ok
    /\ config.exclude_patterns = <<PatStarA, PatBad>>
    /\ config.include_patterns = <<PatStarA>>
    /\ Cardinality(present) = 2

----------------------------------------------------------------------------
(* What a run is expected to do, stated from the inputs *)

\* the core returned a result for this top-level path
Succeeds(file) == file.core.ok

\* the Count and the number of files a succeeding input stands for
InputCount(file) == IF file.is_dir THEN file.core.total ELSE file.core.value
InputFileCount(file) == IF file.is_dir THEN Len(file.core.entries) ELSE 1

\* the inputs among the first k that succeeded, in input order
SucceededIn(k) == SelectSeq(SubSeq(args.files, 1, k), Succeeds)

RECURSIVE SumFileCounts(_)
SumFileCounts(fs) ==
    IF fs = <<>> THEN 0 ELSE InputFileCount(Head(fs)) + SumFileCounts(Tail(fs))

\* what normal mode prints for a succeeding input
ExpectedBlock(file) ==
    IF file.is_dir /\ args.verbose
    THEN Printed_verbose(file.core.entries, file.core.total)
    ELSE Printed_output(args.compact, file.name, InputCount(file),
                        IF file.is_dir THEN OutputKind_Directory(InputFileCount(file))
                        ELSE OutputKind_File)

\* what JSON mode records for a succeeding input
ExpectedJson(file) ==
    [name |-> file.name, count |-> InputCount(file), is_directory |-> file.is_dir,
     file_count |-> IF file.is_dir THEN Some(InputFileCount(file)) ELSE NoFileCount]

IsBlock(line) ==
    line.fn \in {"format_output", "format_compact_output", "format_verbose_output"}
IsTotal(line) == line.fn \in {"format_total_output", "format_compact_total"}

\* the per-input results JSON mode has written to stdout
JsonEmitted ==
    IF stdout = <<>> THEN <<>>
    ELSE IF stdout[Len(stdout)].fn = "format_json_single"
         THEN <<stdout[Len(stdout)].result>>
    ELSE stdout[Len(stdout)].results

InLoop == pc \in {"json", "normal"} \/ (pc = "exited" /\ args.files # <<>>)

----------------------------------------------------------------------------
(* Claims about the driver *)

\* C8: a failing top-level path never stops the loop: the results printed (normal
\* mode) or recorded and then printed (JSON mode) are those of exactly the inputs
\* processed so far that succeeded, in input order; the run ends only after the
\* last input, with status 1 if some input failed and 0 otherwise.
C8_FailureDoesNotStopLoop ==
    InLoop =>
        LET ok == SucceededIn(index)
            failed == \E i \in 1..index : ~Succeeds(args.files[i])
        IN /\ has_error <=> failed
           /\ args.json => results = [i \in DOMAIN ok |-> ExpectedJson(ok[i])]
           /\ ~args.json =>
                 SelectSeq(stdout, IsBlock) = [i \in DOMAIN ok |-> ExpectedBlock(ok[i])]
           /\ pc = "exited" =>
                 /\ index = Len(args.files)
                 /\ exit_code = IF failed THEN 1 ELSE 0
                 /\ args.json => JsonEmitted = results

\* C8 witness: a JSON run over a succeeding, a failing and a succeeding path ended
\* with status 1 and both results printed
C8_Witness ==
    /\ pc = "exited"
    /\ args.json
    /\ Len(args.files) = 3
    /\ Succeeds(args.files[1])
    /\ ~Succeeds(args.files[2])
    /\ Succeeds(args.files[3])
    /\ exit_code = 1
    /\ Len(JsonEmitted) = 2

\* C9: in normal mode nothing of the grand total is printed before the loop is
\* over, and the run ends with the total block as the last thing on stdout
\* exactly when two or more inputs succeeded.
C9_TotalIffTwoSucceeded ==
    (~args.json /\ pc # "idle") =>
        LET totals == { i \in DOMAIN stdout : IsTotal(stdout[i]) }
            n == Len(stdout)
        IN /\ pc # "exited" =>
                 /\ totals = {}
                 /\ \A i \in DOMAIN stdout : stdout[i] # Printed_separator
           /\ pc = "exited" =>
                 /\ totals # {} <=> Len(SucceededIn(Len(args.files))) >= 2
                 /\ totals \subseteq {n}
                 /\ (totals # {} /\ ~args.compact) =>
                       /\ stdout[n - 1] = Printed_separator
                       /\ stdout[n - 2] = Printed_blank

\* C9 witness: three paths given, one failed, and the total of the other two printed
C9_Witness ==
    /\ pc = "exited"
    /\ ~args.json
    /\ Len(args.files) = 3
    /\ Len(stderr) = 1
    /\ IsTotal(stdout[Len(stdout)])

\* C10: in normal mode, after any number of inputs the running total is the merge
\* of the Counts of the inputs so far that succeeded, the running file count the
\* sum of their file counts and the success counter their number; so a failing
\* input changes none of the three. (JSON mode keeps the same running total.)
C10_RunningTotals ==
    InLoop =>
        LET ok == SucceededIn(index) IN
        /\ total_count = sum([i \in DOMAIN ok |-> InputCount(ok[i])])
        /\ ~args.json =>
              /\ total_file_count = SumFileCounts(ok)
              /\ successful_args = Len(ok)

\* C10 witness: the loop has passed a directory of two files and then a failing
\* path, and the three accumulators are those of the directory alone
C10_Witness ==
    /\ pc = "normal"
    /\ index = 2
    /\ Len(args.files) = 3
    /\ args.files[1] = InputDirTwo
    /\ ~Succeeds(args.files[2])
    /\ total_count = InputDirTwo.core.total
    /\ total_file_count = 2
    /\ successful_args = 1

----------------------------------------------------------------------------
(* Claims about Count::from_content *)

Called == counted.state = "some"

\* the length of the UTF-8 encoding of s: U+00E9 is the one character of two bytes
EncodedLength(s) == Len(s) + Cardinality({ i \in DOMAIN s : s[i] = "U+00E9" })

\* the segments the line terminators cut s into: one per "\n", and one more for
\* what follows the last "\n" when that is not empty
SegmentCount(s) ==
    Cardinality({ i \in DOMAIN s : s[i] = "\n" })
      + (IF s # <<>> /\ s[Len(s)] # "\n" THEN 1 ELSE 0)

\* C11: from_content gives bytes equal to the encoded byte length of the content
\* and lines equal to the number of newline-delimited segments: a last segment
\* with no terminator is a line, a final terminator adds no empty line, and the
\* empty content has no line.
C11_BytesAndLines ==
    Called =>
        /\ counted.value.bytes = EncodedLength(text)
        /\ counted.value.lines = SegmentCount(text)

\* C11 witness: a two-byte character, a terminator and a last segment without one
\* were counted as 4 bytes and 2 lines
C11_Witness ==
    /\ Called
    /\ text = <<"U+00E9", "\n", "a">>
    /\ counted.value.bytes = 4
    /\ counted.value.lines = 2

\* the largest number of characters of a line of s
RECURSIVE MaxChars(_)
MaxChars(ls) == IF ls = <<>> THEN 0 ELSE Max(Len(Head(ls)), MaxChars(Tail(ls)))

\* C12: max_line_length is the largest character count of a line segment, and 0
\* when there is no line. (Violated: from_content takes l.len(), the length in
\* bytes, so the one-character line U+00E9 gives 2.)
C12_MaxLineLengthChars ==
    Called => counted.value.max_line_length = MaxChars(str_lines(text))

----------------------------------------------------------------------------
(* Claims about JSON mode *)

\* JSON text, built from its parts
JsonString(str) == "\"" \o str \o "\""
JsonField(key, value) == JsonString(key) \o ":" \o value
JsonObject(fields) == "{" \o join(fields, ",") \o "}"
JsonArray(items) == "[" \o join(items, ",") \o "]"

\* the four metric fields
MetricFields(c) ==
    <<JsonField("max_line_length", to_string(c.max_line_length)),
      JsonField("lines", to_string(c.lines)),
      JsonField("words", to_string(c.words)),
      JsonField("bytes", to_string(c.bytes))>>

\* the object of one succeeding input (no name of the inputs needs an escape)
InputObject(file) ==
    IF file.is_dir
    THEN JsonObject(<<JsonField("directory", JsonString(file.name)),
                      JsonField("file_count", to_string(InputFileCount(file)))>>
                    \o MetricFields(InputCount(file)))
    ELSE JsonObject(<<JsonField("file", JsonString(file.name))>>
                    \o MetricFields(InputCount(file)))

\* the object with the array of the inputs' objects and their total
FilesAndTotal(ok) ==
    JsonObject(
        <<JsonField("files", JsonArray([i \in DOMAIN ok |-> InputObject(ok[i])])),
          JsonField("total",
              JsonObject(<<JsonField("file_count", to_string(SumFileCounts(ok)))>>
                         \o MetricFields(sum([i \in DOMAIN ok |-> InputCount(ok[i])]))))>>)

JsonDone == args.json /\ pc = "exited" /\ args.files # <<>>

\* C13: what JSON mode prints is fixed by the inputs and their results alone, so
\* it is the same under every setting of the display flags, and every object of
\* it, per input and total, has the four fields max_line_length, lines, words
\* and bytes.
C13_JsonIgnoresDisplayFlags ==
    JsonDone =>
        LET ok == SucceededIn(Len(args.files)) IN
        /\ ok = <<>> => stdout = <<>>
        /\ ok # <<>> =>
              /\ Len(stdout) = 1
              /\ stdout[1].text = IF Len(ok) = 1 THEN InputObject(ok[1])
                                  ELSE FilesAndTotal(ok)

\* C13 witness: a JSON run with only the words flag set printed all four fields
\* of its one input
C13_Witness ==
    /\ JsonDone
    /\ args.words /\ ~args.lines /\ ~args.bytes /\ ~args.max_line_length
    /\ args.files = <<InputFileX>>
    /\ stdout[1].text
         = "{\"file\":\"x.txt\",\"max_line_length\":3,\"lines\":1,\"words\":2,\"bytes\":4}"

\* C14: in JSON mode, whenever two or more paths are given, one object is
\* printed, with the "files" array of the succeeded inputs' objects in input
\* order and the "total" object of their file counts and merged metrics.
\* (Violated: run_json_mode chooses the shape by the number of results, so two
\* paths of which one failed print the bare object of the other, and two failed
\* paths print nothing.)
C14_MultipleInputsFilesAndTotal ==
    (JsonDone /\ Len(args.files) >= 2) =>
        /\ Len(stdout) = 1
        /\ stdout[1].text = FilesAndTotal(SucceededIn(Len(args.files)))

----------------------------------------------------------------------------
(* Claims about the metrics shown *)

\* sub occurs in str
Contains(str, sub) ==
    \E i \in 1..(Len(str) - Len(sub) + 1) : SubSeq(str, i, i + Len(sub) - 1) = sub

NoMetricFlag == ~args.lines /\ ~args.words /\ ~args.bytes /\ ~args.max_line_length

IsStandard(line) == line.fn \in {"format_output", "format_total_output"}
IsCompact(line) == line.fn \in {"format_compact_output", "format_compact_total"}

\* C15: in every Standard and Compact block, of an input or of the total, lines,
\* words and bytes are each shown exactly when its own flag is set or none of the
\* four flags is, and max_line_length exactly when its own flag is set.
C15_MetricSelection ==
    \A i \in DOMAIN stdout :
        LET t == stdout[i].text IN
        /\ IsStandard(stdout[i]) =>
              /\ Contains(t, "   Lines: ") <=> (args.lines \/ NoMetricFlag)
              /\ Contains(t, "   Words: ") <=> (args.words \/ NoMetricFlag)
              /\ Contains(t, "   Bytes: ") <=> (args.bytes \/ NoMetricFlag)
              /\ Contains(t, "Max Line: ") <=> args.max_line_length
        /\ IsCompact(stdout[i]) =>
              /\ Contains(t, " lines") <=> (args.lines \/ NoMetricFlag)
              /\ Contains(t, " words") <=> (args.words \/ NoMetricFlag)
              /\ Contains(t, " bytes") <=> (args.bytes \/ NoMetricFlag)
              /\ Contains(t, "max:") <=> args.max_line_length

\* C15 witness: with only the max_line_length flag a Standard block and its total
\* were printed with the Max Line row and none of the other three
C15_Witness ==
    /\ pc = "exited"
    /\ args.max_line_length /\ ~args.lines /\ ~args.words /\ ~args.bytes
    /\ args.no_color
    /\ args.files = <<InputFileX, InputFileY>>
    /\ stdout[1].text = "x.txt\nMax Line:          3"
    /\ stdout[Len(stdout)].text = "Total (2 files)\nMax Line:          4"

----------------------------------------------------------------------------
(* Claims about verbose mode *)

\* the lines of a printed text
RECURSIVE TextLines(_)
TextLines(str) ==
    IF \E i \in 1..Len(str) : SubSeq(str, i, i) = "\n"
    THEN LET k == CHOOSE i \in 1..Len(str) :
                    /\ SubSeq(str, i, i) = "\n"
                    /\ \A j \in 1..(i - 1) : SubSeq(str, j, j) # "\n"
         IN <<SubSeq(str, 1, k - 1)>> \o TextLines(SubSeq(str, k + 1, Len(str)))
    ELSE <<str>>

EndsWith(str, suffix) ==
    /\ Len(suffix) <= Len(str)
    /\ SubSeq(str, Len(str) - Len(suffix) + 1, Len(str)) = suffix

MetricOf(c, unit) ==
    CASE unit = "lines" -> c.lines
      [] unit = "words" -> c.words
      [] unit = "bytes" -> c.bytes
      [] unit = "max" -> c.max_line_length

\* every per-file line of the verbose block and its total line show this metric
VerboseShows(block, unit) ==
    LET ls == TextLines(block.text)
        n == Len(block.entries)
    IN /\ Len(ls) = n + 2
       /\ \A i \in 1..n :
             EndsWith(ls[i], "  " \o to_string(MetricOf(block.entries[i].count, unit))
                               \o " " \o unit)
       /\ EndsWith(ls[n + 2], ")  " \o to_string(MetricOf(block.count, unit))
                                \o " " \o unit)

\* the first flag set in the order lines, words, bytes, max_line_length
FirstActive ==
    IF args.lines THEN "lines"
    ELSE IF args.words THEN "words"
    ELSE IF args.bytes THEN "bytes"
    ELSE IF args.max_line_length THEN "max"
    ELSE "lines"

\* the flag set when it is the only one of the four, and lines otherwise
OnlyActive ==
    LET set == { f \in {"lines", "words", "bytes", "max_line_length"} : args[f] } IN
    IF set = {"words"} THEN "words"
    ELSE IF set = {"bytes"} THEN "bytes"
    ELSE IF set = {"max_line_length"} THEN "max"
    ELSE "lines"

\* C16 as stated: every verbose block shows, on each per-file line and on the
\* total line, the metric of the first active flag in the order lines, words,
\* bytes, max-line-length, and lines when none is active. (Violated: with words
\* and bytes both set, format_single_count falls to its default arm and shows
\* lines.)
C16_VerboseFirstActiveFlag ==
    \A i \in DOMAIN stdout :
        stdout[i].fn = "format_verbose_output" => VerboseShows(stdout[i], FirstActive)

\* C16 amended: every verbose block shows, on each per-file line and on the total
\* line alike, the metric of the one active display flag when exactly one of the
\* four is active, and lines in every other case (none active, or several).
C16_VerboseSingleFlag ==
    \A i \in DOMAIN stdout :
        stdout[i].fn = "format_verbose_output" => VerboseShows(stdout[i], OnlyActive)

\* C16 witness: a verbose run with words and bytes both set listed a directory of
\* two files by lines
C16_Witness ==
    /\ pc = "exited"
    /\ args.verbose /\ ~args.json /\ args.no_color
    /\ args.words /\ args.bytes /\ ~args.lines /\ ~args.max_line_length
    /\ args.files = <<InputDirTwo>>
    /\ stdout[1].text = "src/a  1 lines\nsrc/s/c  2 lines\n" \o format_separator
                          \o "\nTotal (2 files)  3 lines"

----------------------------------------------------------------------------
(* Claims about the diagnostics of failed paths *)

Fails(file) == ~Succeeds(file)

\* the inputs among the first k that failed, in input order
FailedIn(k) == SelectSeq(SubSeq(args.files, 1, k), Fails)

StartsWith(str, prefix) ==
    Len(prefix) <= Len(str) /\ SubSeq(str, 1, Len(prefix)) = prefix

\* the results printed so far
PrintedResults ==
    IF args.json THEN JsonEmitted ELSE SelectSeq(stdout, IsBlock)

\* C18: in every mode (standard, compact, verbose, JSON) each top-level path that
\* failed has exactly one line on stderr, marked with the warning icon and naming
\* the path and the cause, and at the end of the run the results of all
\* succeeded paths are printed. (Violated: run_json_mode answers a failure with
\* `has_error = true; continue` and writes nothing to stderr.)
C18_WarningPerFailedPath ==
    InLoop =>
        LET failed == FailedIn(index) IN
        /\ Len(stderr) = Len(failed)
        /\ \A i \in DOMAIN failed :
              /\ StartsWith(stderr[i].text, WARNING_ICON)
              /\ Contains(stderr[i].text, failed[i].name)
              /\ Contains(stderr[i].text, io_error_display(failed[i].core.err))
        /\ pc = "exited" => Len(PrintedResults) = Len(SucceededIn(index))

----------------------------------------------------------------------------
(* Claims about a directory that cannot be opened, and about a hidden root *)

\* C17: when the directory given to the call cannot be opened, the call returns
\* an error and never a successful result. (Violated: the error WalkDir yields
\* for the root is dropped by filter_map(|e| e.ok()), so the walk ends with no
\* path and the call returns Ok with no entry and the all-zero total.)
C17_UnopenableRootFails ==
    (dpc = "done" /\ ~root_openable) => ~dresult.ok


\* C19: a root whose own name starts with "." is traversed even without
\* include_hidden: the root is yielded, and every file directly under it whose
\* name is not hidden and that the patterns accept is listed, and is counted if
\* it can be read.
C19_HiddenRootTraversed ==
    (Head(root) = "." /\ ~config.include_hidden /\ GlobsOk /\ root_openable
       /\ dpc \in {"count", "done"}) =>
        /\ RootPath \in visited
        /\ \A f \in Files :
              (/\ depth(f) = 1
               /\ Head(file_name(f)) # "."
               /\ accepts(exclude_set.set, include_set.set, has_include_patterns, f)) =>
                  /\ f \in Range(file_paths)
                  /\ (dpc = "done" /\ strip_prefix(f, RootPath) \notin unreadable) =>
                        f \in PathsOf(dresult.entries)

\* C19 witness: under the root .d, without include_hidden, the file a was counted
\* and the hidden file .h beside it was not listed
C19_Witness ==
    /\ root = <<".", "d">>
    /\ ~config.include_hidden
    /\ present = {FileA, FileDotH}
    /\ unreadable = {}
    /\ Returned
    /\ PathsOf(dresult.entries) = {RootPath \o FileA}
    /\ dresult.total = from_content(Content(FileA))

----------------------------------------------------------------------------
(* Claims about the blank lines of Standard mode *)

\* the blocks with one blank line between each two
RECURSIVE WithBlanks(_)
WithBlanks(blocks) ==
    IF Len(blocks) <= 1 THEN blocks
    ELSE <<Head(blocks), "">> \o WithBlanks(Tail(blocks))

StandardDone ==
    pc = "exited" /\ ~args.json /\ ~args.compact /\ ~args.verbose /\ args.files # <<>>

\* C20: at the end of a Standard run over any succeeding and failing inputs,
\* stdout is the blocks of the succeeded inputs with exactly one blank line
\* between successive blocks and, when more than one input succeeded, one blank
\* line, the rule line and the totals block after the last; so there are never
\* two blank lines in a row and never a blank line at the end. (Violated: the
\* blank line after a block is printed whenever the input is not the last
\* argument, also when every later input fails.)
C20_BlankLinesBetweenBlocks ==
    StandardDone =>
        LET ok == SucceededIn(Len(args.files))
            blocks == [i \in DOMAIN ok |-> ExpectedBlock(ok[i]).text]
            total == sum([i \in DOMAIN ok |-> InputCount(ok[i])])
        IN [i \in DOMAIN stdout |-> stdout[i].text]
             = WithBlanks(blocks)
                 \o (IF Len(ok) > 1
                     THEN <<"", format_separator,
                            format_total_output(SumFileCounts(ok), total, args)>>
                     ELSE <<>>)

----------------------------------------------------------------------------
(* Claims about no_color *)

\* the text the formatter of a printed line gives under the flags a
Reformat(line, a) ==
    CASE line.fn = "format_output" ->
             format_output(line.name, line.count, line.kind, a)
      [] line.fn = "format_compact_output" ->
             format_compact_output(line.name, line.count, line.kind, a)
      [] line.fn = "format_total_output" ->
             format_total_output(line.file_count, line.count, a)
      [] line.fn = "format_compact_total" ->
             format_compact_total(line.file_count, line.count, a)
      [] line.fn = "format_verbose_output" ->
             format_verbose_output(line.entries, line.count, a)
      [] OTHER -> line.text

\* the icon that leads the k-th line of a printed text, "" when it has none
LeadingIcon(line, k, n) ==
    CASE line.fn = "format_output" /\ k = 1 ->
             IF line.kind.kind = "File" THEN FILE_ICON ELSE DIR_ICON
      [] line.fn = "format_total_output" /\ k = 1 -> DIR_ICON
      [] line.fn = "format_verbose_output" /\ k = n -> DIR_ICON
      [] line.fn = "format_verbose_output" /\ k < n - 1 -> FILE_ICON
      [] OTHER -> ""

HasIcon(str) == Contains(str, "<U+1F4C4>") \/ Contains(str, "<U+1F4C1>")

\* C21: no_color changes only the leading icon. For every line printed, the text
\* with no_color is the text without no_color with the leading icon (the glyph
\* and its space) removed from the Standard header, the Standard total header,
\* each verbose entry line and the verbose total line, every other line being the
\* same; Compact and JSON texts are the same with and without no_color and hold
\* no icon.
C21_NoColorRemovesOnlyIcon ==
    \A i \in DOMAIN stdout :
        LET line == stdout[i]
            other == Reformat(line, [args EXCEPT !.no_color = ~args.no_color])
            plain == TextLines(IF args.no_color THEN line.text ELSE other)
            icons == TextLines(IF args.no_color THEN other ELSE line.text)
        IN /\ Len(plain) = Len(icons)
           /\ \A k \in DOMAIN plain :
                 icons[k] = LeadingIcon(line, k, Len(plain)) \o plain[k]
           /\ \A k \in DOMAIN plain : ~HasIcon(plain[k])
           /\ (IsCompact(line) \/ args.json) => ~HasIcon(line.text) /\ other = line.text

\* C21 witness: with no_color a directory's Standard block was printed with the
\* header "src (2 files)", and a verbose listing without any icon
C21_Witness ==
    /\ pc = "exited"
    /\ args.no_color /\ ~args.json
    /\ args.files = <<InputDirTwo, InputFileX>>
    /\ \/ /\ ~args.verbose /\ ~args.compact
          /\ TextLines(stdout[1].text)[1] = "src (2 files)"
          /\ TextLines(Reformat(stdout[1], [args EXCEPT !.no_color = FALSE]))[1]
               = "<U+1F4C1> src (2 files)"
       \/ /\ args.verbose
          /\ TextLines(stdout[1].text)[1] = "src/a  1 lines"

----------------------------------------------------------------------------
(* Claims about escape_json and format_number *)

Formatted(kind) == subject.kind = kind /\ rendered.state = "some"

\* the two-character escape of a character that has one, else the character
EscapeOf(ch) ==
    CASE ch = "\\" -> "\\\\"
      [] ch = "\"" -> "\\\""
      [] ch = "\n" -> "\\n"
      [] ch = "\r" -> "\\r"
      [] ch = "\t" -> "\\t"
      [] OTHER -> ch

\* every character of str replaced by its escape, in one pass
RECURSIVE EscapedOnce(_)
EscapedOnce(str) ==
    IF Len(str) = 0 THEN "" ELSE EscapeOf(Head(str)) \o EscapedOnce(Tail(str))

\* the character an escape stands for, by the character after the backslash
Unescaped(ch) ==
    CASE ch = "n" -> "\n"
      [] ch = "r" -> "\r"
      [] ch = "t" -> "\t"
      [] OTHER -> ch

\* str read from the left as escapes and plain characters
RECURSIVE Unescape(_)
Unescape(str) ==
    IF Len(str) = 0 THEN ""
    ELSE IF Head(str) = "\\" /\ Len(str) >= 2
         THEN Unescaped(SubSeq(str, 2, 2)) \o Unescape(SubSeq(str, 3, Len(str)))
    ELSE Head(str) \o Unescape(Tail(str))

\* str read from the left has no quote, newline, carriage return or tab outside
\* an escape, and no backslash that starts no escape
RECURSIVE NoRawCharacter(_)
NoRawCharacter(str) ==
    IF Len(str) = 0 THEN TRUE
    ELSE IF Head(str) = "\\"
         THEN /\ Len(str) >= 2
              /\ SubSeq(str, 2, 2) \in {"\\", "\"", "n", "r", "t"}
              /\ NoRawCharacter(SubSeq(str, 3, Len(str)))
    ELSE /\ Head(str) \notin {"\"", "\n", "\r", "\t"}
         /\ NoRawCharacter(Tail(str))

\* C22: escape_json gives the input with every backslash, quote, newline,
\* carriage return and tab replaced by its two-character escape and every other
\* character kept, no backslash of an escape being escaped again; so the result
\* has none of these characters raw, and un-escaping it gives the input back.
C22_EscapeJson ==
    Formatted("str") =>
        /\ rendered.value = EscapedOnce(subject.value)
        /\ NoRawCharacter(rendered.value)
        /\ \A i \in 1..Len(rendered.value) :
              SubSeq(rendered.value, i, i) \notin {"\n", "\r", "\t"}
        /\ Unescape(rendered.value) = subject.value

\* C22 witness: a backslash, the letter n and a newline were escaped to
\* backslash backslash n backslash n
C22_Witness ==
    /\ Formatted("str")
    /\ subject.value = "\\n\n"
    /\ rendered.value = "\\\\n\\n"

\* the parts of str between the occurrences of the character sep
RECURSIVE SplitAt(_, _)
SplitAt(str, sep) ==
    IF \E i \in 1..Len(str) : SubSeq(str, i, i) = sep
    THEN LET k == CHOOSE i \in 1..Len(str) :
                    /\ SubSeq(str, i, i) = sep
                    /\ \A j \in 1..(i - 1) : SubSeq(str, j, j) # sep
         IN <<SubSeq(str, 1, k - 1)>> \o SplitAt(SubSeq(str, k + 1, Len(str)), sep)
    ELSE <<str>>

IsDigits(str) ==
    \A i \in 1..Len(str) : \E d \in 0..9 : SubSeq(str, i, i) = Digit[d + 1]

\* the number a string of digits writes
RECURSIVE NumberOfDigits(_)
NumberOfDigits(str) ==
    IF Len(str) = 0 THEN 0
    ELSE 10 * NumberOfDigits(SubSeq(str, 1, Len(str) - 1))
           + (CHOOSE d \in 0..9 : Digit[d + 1] = SubSeq(str, Len(str), Len(str)))

\* C23: format_number(n) is digit groups separated by commas: the first group
\* has one to three digits, every later group exactly three, no group is empty
\* (so no comma leads or trails), and the groups put together are the decimal
\* string of n.
C23_FormatNumberGroups ==
    Formatted("num") =>
        LET groups == SplitAt(rendered.value, ",")
            digits == join(groups, "")
        IN /\ \A i \in DOMAIN groups : IsDigits(groups[i])
           /\ Len(groups[1]) \in 1..3
           /\ \A i \in 2..Len(groups) : Len(groups[i]) = 3
           /\ NumberOfDigits(digits) = subject.value
           /\ Len(digits) > 1 => Head(digits) # "0"

\* C23 witness: 1009010 was written with two commas
C23_Witness ==
    /\ Formatted("num")
    /\ subject.value = 1009010
    /\ rendered.value = "1,009,010"

----------------------------------------------------------------------------
(* Claims about standard input *)

\* C24: a run with no file argument counts the content of standard input, prints
\* it as a result under the name <stdin> and succeeds. (Violated: main reads
\* nothing from standard input; with no file argument it writes "ewc: No files
\* specified" to stderr and exits with status 1, whatever standard input holds.)
C24_StdinCounted ==
    (pc = "exited" /\ args.files = <<>>) =>
        /\ exit_code = 0
        /\ stderr = <<>>
        /\ Len(stdout) = 1
        /\ Contains(stdout[1].text, "<stdin>")

----------------------------------------------------------------------------
(* Claims about the two merge operators *)

\* C25: each merge step, whether written `acc + b` or `acc += b`, leaves the sums
\* of lines, words and bytes and the maximum of max_line_length of the two
\* operands; and `a += b` leaves a equal to `a + b`.
C25_AddAndAddAssign ==
    [][LET b == operands[order'[Len(order')]] IN
       /\ acc' = Count(acc.lines + b.lines, acc.words + b.words, acc.bytes + b.bytes,
                       IF acc.max_line_length >= b.max_line_length
                       THEN acc.max_line_length ELSE b.max_line_length)
       /\ add_assign(acc, b) = add(acc, b)
       /\ add_assign(b, acc) = add(b, acc)]_vars

\* C25 witness: two operands were merged, the first with the longer line, and the
\* result has the sums and the first operand's max_line_length
C25_Witness ==
    /\ order = <<1, 2>>
    /\ operands[1].max_line_length = 1
    /\ operands[2].max_line_length = 0
    /\ operands[1].lines = 1 /\ operands[2].lines = 1
    /\ acc.lines = 2
    /\ acc.bytes = operands[1].bytes + operands[2].bytes
    /\ acc.max_line_length = 1

----------------------------------------------------------------------------
(* Claims about the counting phase of count_directory_detailed *)

\* walk_directory returned, and the list of paths it returned is empty
EmptyPathList == GlobsOk /\ dpc \in {"count", "done"} /\ file_paths = <<>>

\* C26: a call of count_directory_detailed whose walk found no eligible file
\* returns Ok with an empty entry list and the all-zero Count, and
\* count_directory's answer for it is that Count with a file count of 0.
C26_EmptyDirectory ==
    (EmptyPathList /\ dpc = "done") =>
        /\ dresult.ok
        /\ dresult.entries = <<>>
        /\ dresult.total = [lines |-> 0, words |-> 0, bytes |-> 0, max_line_length |-> 0]
        /\ count_directory(dresult).ok
        /\ count_directory(dresult).value[1] = dresult.total
        /\ count_directory(dresult).value[2] = 0

\* C26 witness: a directory holding files, none of them eligible, was counted
C26_Witness ==
    /\ EmptyPathList
    /\ dpc = "done"
    /\ present # {}
    /\ root_openable
    /\ dresult.ok
    /\ dresult.entries = <<>>

\* the number of entries of the list with the path p
Occurrences(entries, p) == Cardinality({ j \in DOMAIN entries : entries[j].path = p })

\* at the return, the entry list holds each enumerated path whose read succeeded
\* once, no enumerated path whose read failed, and no other path
AccountedOnce ==
    Returned =>
        /\ \A i \in DOMAIN file_paths :
              Occurrences(dresult.entries, file_paths[i])
                  = IF count_file(file_paths[i]).ok THEN 1 ELSE 0
        /\ PathsOf(dresult.entries) \subseteq Range(file_paths)

\* C27: the counting phase, once entered, ends with the return of
\* count_directory_detailed, and at the return every enumerated path is in the
\* entry list exactly once if its read succeeded and not at all if it failed,
\* and the list holds no path that was not enumerated.
C27_EveryFileAccountedOnce ==
    /\ [](dpc = "count" => <>(dpc = "done"))
    /\ []AccountedOnce

\* C27 witness: three paths were enumerated, one read failed, and the call
\* returned the two others
C27_Witness ==
    /\ Returned
    /\ Len(file_paths) = 3
    /\ Len(dresult.entries) = 2
    /\ \E i \in DOMAIN file_paths : ~count_file(file_paths[i]).ok

----------------------------------------------------------------------------
(* Claims about the compact line of one input *)

\* the header the compact line of an input starts with, up to its colon
CompactHeader(line) ==
    IF line.kind.kind = "File" THEN line.name
    ELSE line.name \o " (" \o to_string(line.kind.file_count) \o " "
           \o (IF line.kind.file_count = 1 THEN "file" ELSE "files") \o ")"

\* C28: the compact output of one input is one line: the header (the name, and
\* for a directory " (N file)" when N is 1 and " (N files)" otherwise), a colon,
\* exactly one space, and the selected metrics joined by ", ".
\* (Violated: for a directory format_compact_output ends its header with ": " and
\* then joins header and metrics with one more space.)
C28_CompactOneSpace ==
    \A i \in DOMAIN stdout :
        stdout[i].fn = "format_compact_output" =>
            /\ stdout[i].text
                 = CompactHeader(stdout[i]) \o ":" \o " "
                     \o format_compact_counts(stdout[i].count, args)
            /\ ~Contains(stdout[i].text, "\n")

----------------------------------------------------------------------------
(* Claims about the verbose flag and inputs that are not directories *)

\* the flags of the run with the verbose flag cleared
NoVerbose == [args EXCEPT !.verbose = FALSE]

\* what a run without the verbose flag prints for a file that was read
FileBlockText(file) ==
    IF args.compact
    THEN format_compact_output(file.name, file.core.value, OutputKind_File, NoVerbose)
    ELSE format_output(file.name, file.core.value, OutputKind_File, NoVerbose)

\* what a run without the verbose flag has printed after the first k top-level
\* paths, none of them a directory
RECURSIVE FileRunTexts(_)
FileRunTexts(k) ==
    IF k = 0 THEN <<>>
    ELSE FileRunTexts(k - 1)
           \o (IF Succeeds(args.files[k])
               THEN <<FileBlockText(args.files[k])>>
                      \o (IF ~args.compact /\ k < Len(args.files) THEN <<"">> ELSE <<>>)
               ELSE <<>>)

\* C29: in normal mode, under either setting of the verbose flag, an input that
\* is not a directory is printed as the run without the flag prints it (a run
\* over no directory prints the same lines, blank lines included), and the
\* verbose listing is printed exactly for the directories when the flag is set.
C29_VerboseOnlyForDirectories ==
    (~args.json /\ pc = "normal") =>
        LET blocks == SelectSeq(stdout, IsBlock)
            ok == SucceededIn(index)
        IN /\ Len(blocks) = Len(ok)
           /\ \A k \in DOMAIN blocks :
                 /\ blocks[k].fn = "format_verbose_output"
                        <=> (ok[k].is_dir /\ args.verbose)
                 /\ ~ok[k].is_dir =>
                        /\ blocks[k].fn
                             = IF args.compact THEN "format_compact_output"
                               ELSE "format_output"
                        /\ blocks[k].text = FileBlockText(ok[k])
           /\ (\A j \in 1..index : ~args.files[j].is_dir) =>
                 [i \in DOMAIN stdout |-> stdout[i].text] = FileRunTexts(index)

\* C29 witness: a verbose run has printed a file and then a directory of two
\* files, the file by format_output and the directory as a listing
C29_Witness ==
    /\ args.verbose /\ ~args.json /\ ~args.compact
    /\ pc = "normal"
    /\ index = 2
    /\ ~args.files[1].is_dir /\ Succeeds(args.files[1])
    /\ args.files[2].is_dir /\ Succeeds(args.files[2])
    /\ Len(args.files[2].core.entries) = 2
    /\ Len(stdout) = 3
    /\ stdout[1].fn = "format_output"
    /\ stdout[3].fn = "format_verbose_output"

----------------------------------------------------------------------------
(* Claims about the grand total of the two drivers *)

\* the grand total of the inputs that succeeded: their merged Count and the sum
\* of their file counts, a file standing for 1
GrandTotal(ok) == sum([i \in DOMAIN ok |-> InputCount(ok[i])])
GrandFileCount(ok) == SumFileCounts(ok)

\* the "total" object of the JSON output
TotalObject(ok) ==
    JsonField("total",
        JsonObject(<<JsonField("file_count", to_string(GrandFileCount(ok)))>>
                   \o MetricFields(GrandTotal(ok))))

\* C30: over the same inputs with the same outcomes the two drivers end with the
\* same grand total: normal mode's total_count and total_file_count, and the
\* total it prints, are the merged Count and the summed file counts of the
\* succeeded inputs, and so are the metrics and the file_count of the JSON
\* "total" object; and an object recorded by JSON mode has a file_count exactly
\* when its input is a directory, that file_count being what the input adds to
\* the total, and an object without one adding 1.
C30_SameGrandTotal ==
    (pc = "exited" /\ args.files # <<>>) =>
        LET ok == SucceededIn(Len(args.files)) IN
        /\ ~args.json =>
              /\ total_count = GrandTotal(ok)
              /\ total_file_count = GrandFileCount(ok)
              /\ Len(ok) > 1 =>
                    /\ stdout[Len(stdout)].count = GrandTotal(ok)
                    /\ stdout[Len(stdout)].file_count = GrandFileCount(ok)
        /\ args.json =>
              /\ Len(results) = Len(ok)
              /\ \A k \in DOMAIN results :
                    /\ results[k].file_count.state = "some" <=> ok[k].is_dir
                    /\ results[k].count = InputCount(ok[k])
                    /\ unwrap_or(results[k].file_count, 1) = InputFileCount(ok[k])
                    /\ Contains(format_json_single(results[k]), "\"file_count\":")
                         <=> ok[k].is_dir
              /\ Len(ok) > 1 =>
                    /\ stdout[1].count = GrandTotal(ok)
                    /\ EndsWith(stdout[1].text, "," \o TotalObject(ok) \o "}")

\* C30 witness: JSON mode has printed a file and a directory of two files, with
\* a total over three files
C30_Witness ==
    /\ args.json
    /\ pc = "exited"
    /\ args.files = <<InputFileX, InputDirTwo>>
    /\ Len(stdout) = 1
    /\ stdout[1].fn = "format_json_multiple"
    /\ Contains(stdout[1].text, "\"total\":{\"file_count\":3,")
    /\ results[1].file_count.state = "none"
    /\ results[2].file_count = [state |-> "some", value |-> 2]

====
